---- MODULE Spec2Model ----
(***************************************************************************)
(* A model of libdnn's CNN utility code (src/src/cnn-utility.cu): the      *)
(* direct and shared-memory-tiled convolution kernels, the shared-memory   *)
(* configuration routine, the pooling kernels, and the feed/update calls   *)
(* of ConvolutionalLayer and SubSamplingLayer.                             *)
(*                                                                         *)
(* Matrices are column-major device buffers: element (row r, column c) of  *)
(* a matrix with R rows lives at index c * R + r.  Buffers are functions   *)
(* from 0..n-1 to integers; floats are modelled by exact integers (and by  *)
(* exact fractions where the code divides).                                *)
(***************************************************************************)
EXTENDS Integers, Sequences, FiniteSets, TLC

VARIABLES
  layer,    \* the layer object: kind, map counts, kernel size, image size, scale
  kernels,  \* ConvolutionalLayer::_kernels[i][j], each a kernel.m x kernel.n buffer
  bias,     \* ConvolutionalLayer::_bias[j]
  fin,      \* the caller's input matrix (with its trailing row)
  delta,    \* the caller's downstream error matrix (with its trailing row)
  fout,     \* the matrix feedForward writes
  error,    \* the matrix feedBackward writes
  last,     \* the layer call that returned last, and how many were made
  ucall,    \* the utility function called last, with its arguments
  uresult,  \* how that call ended, and what it returned
  pc,       \* the host thread inside a layer call: its statements and position
  stream,   \* the default stream: launches issued and not yet started
  running,  \* the launch the device is executing, thread by thread
  device    \* device memory while a layer call is followed step by step

layerVars == <<layer, kernels, bias, fin, delta, fout, error, last>>
utilVars == <<ucall, uresult>>
devVars == <<pc, stream, running, device>>
vars == <<layerVars, utilVars, devVars>>

(***************************************************************************)
(* Bounds of the model.  Sizes range over the two values below and at a    *)
(* bound, so that raising a bound moves the window instead of widening it. *)
(***************************************************************************)
MaxMaps  == 2   \* input and output map counts: MaxMaps - 1 .. MaxMaps
MaxBatch == 2   \* batch sizes: MaxBatch - 1 .. MaxBatch
MaxImg   == 3   \* image sides: MaxImg - 1 .. MaxImg
MaxKer   == 2   \* kernel sides: MaxKer - 1 .. MaxKer
MaxBlock == 2   \* thread-block sides: MaxBlock - 1 .. MaxBlock
MaxScale == 2   \* pooling scales: MaxScale - 1 .. MaxScale

Window(max) == (max - 1) .. max

(***************************************************************************)
(* Values an uninitialised cell may hold.                                  *)
(***************************************************************************)
Junk == {0, 7}

Idx(n) == 0 .. (n - 1)

RECURSIVE SumSeq(_)
SumSeq(s) == IF s = <<>> THEN 0 ELSE Head(s) + SumSeq(Tail(s))

RECURSIVE SetToSeq(_)
SetToSeq(S) == IF S = {} THEN <<>>
               ELSE LET e == CHOOSE e \in S : TRUE IN <<e>> \o SetToSeq(S \ {e})

\* Sum of w[3] over a set of write tuples <<address, thread, value>>.
RECURSIVE SumWrites(_)
SumWrites(S) == IF S = {} THEN 0
                ELSE LET w == CHOOSE w \in S : TRUE IN w[3] + SumWrites(S \ {w})

\* The sum of F(e) over the elements e of S.
SumOver(S, F(_)) ==
  LET q == SetToSeq(S) IN SumSeq([n \in 1..Len(q) |-> F(q[n])])

CeilDiv(a, b) == (a + b - 1) \div b

(***************************************************************************)
(* SIZE algebra.                                                           *)
(***************************************************************************)
Size(m, n) == [m |-> m, n |-> n]
area(s) == s.m * s.n
SizeDiv(s, k) == Size(s.m \div k, s.n \div k)

(***************************************************************************)
(* Data patterns: the value of cell p of pattern number seed.              *)
(***************************************************************************)
Val(seed, p) == ((p * p + (seed + 2) * p + seed) % 7) - 3

(***************************************************************************)
(* Fixed-width unsigned arithmetic.  A number is a little-endian sequence  *)
(* of base-256 digits; a sequence of 4 digits is an `unsigned int`, one of *)
(* 8 digits a `size_t`, and sums and products are cut to the width of      *)
(* their operands, as the machine cuts them.  WideDigits is wide enough    *)
(* that no operation of this model is cut, and is used for exact values.   *)
(***************************************************************************)
IntDigits == 4
SizeTDigits == 8
WideDigits == 12

Digit(n, i) == IF i = 1 THEN n % 256
               ELSE IF i = 2 THEN (n \div 256) % 256
               ELSE IF i = 3 THEN (n \div 65536) % 256
               ELSE IF i = 4 THEN (n \div 16777216) % 256
               ELSE 0

\* The nd-digit number of a natural n < 2^31.
ToDigits(n, nd) == [i \in 1..nd |-> Digit(n, i)]

\* Zero-extension (or truncation) to nd digits.
Extend(a, nd) == [i \in 1..nd |-> IF i <= Len(a) THEN a[i] ELSE 0]

RECURSIVE AddFrom(_, _, _, _)
AddFrom(a, b, k, carry) ==
  IF k > Len(a) THEN <<>>
  ELSE LET s == a[k] + b[k] + carry
       IN <<s % 256>> \o AddFrom(a, b, k + 1, s \div 256)

AddD(a, b) == AddFrom(a, b, 1, 0)

RECURSIVE DotFrom(_, _, _, _)
DotFrom(a, b, k, i) == IF i > k THEN 0 ELSE a[i] * b[k + 1 - i] + DotFrom(a, b, k, i + 1)

RECURSIVE MulFrom(_, _, _, _)
MulFrom(a, b, k, carry) ==
  IF k > Len(a) THEN <<>>
  ELSE LET s == carry + DotFrom(a, b, k, 1)
       IN <<s % 256>> \o MulFrom(a, b, k + 1, s \div 256)

MulD(a, b) == MulFrom(a, b, 1, 0)

\* a > b, for numbers of the same width.
RECURSIVE GreaterFrom(_, _, _)
GreaterFrom(a, b, k) ==
  IF k = 0 THEN FALSE
  ELSE IF a[k] # b[k] THEN a[k] > b[k]
  ELSE GreaterFrom(a, b, k - 1)

GreaterD(a, b) == GreaterFrom(a, b, Len(a))

\* The integer a number below 2^31 stands for.
FromDigits(a) == a[1] + 256 * a[2] + 65536 * a[3] + 16777216 * a[4]

\* A launch dimension (dim3: three unsigned int) from small integers, and back.
Dim3(x, y, z) == [x |-> ToDigits(x, IntDigits), y |-> ToDigits(y, IntDigits),
                  z |-> ToDigits(z, IntDigits)]
GridInts(g) == [x |-> FromDigits(g.x), y |-> FromDigits(g.y), z |-> FromDigits(g.z)]

(***************************************************************************)
(* getSuitableShmConfig.  threads.x, threads.y, grids.x, grids.y are       *)
(* unsigned int, kH and kW are int, so the element count                   *)
(* kW*kH + (threads.x+kW-1)*(threads.y+kH-1) is computed in unsigned int   *)
(* and only then widened to size_t and multiplied by sizeof(float).        *)
(* The grid is kept as unsigned int digits (doubling wraps at 2^32); the   *)
(* block sides are integers, a block having at most a few thousand threads.*)
(***************************************************************************)
MAX_SHARED_MEMORY_SIZE == 49152
SizeofFloat == 4
MinThreads == 32

ShmElements(threads, kH, kW, nd) ==
  AddD(ToDigits(kW * kH, nd),
       MulD(AddD(ToDigits(threads.x, nd), ToDigits(kW - 1, nd)),
            AddD(ToDigits(threads.y, nd), ToDigits(kH - 1, nd))))

\* ( kW * kH + (threads.x + kW - 1) * (threads.y + kH - 1) ) * sizeof(float)
ShmSize(threads, kH, kW) ==
  MulD(Extend(ShmElements(threads, kH, kW, IntDigits), SizeTDigits),
       ToDigits(SizeofFloat, SizeTDigits))

OverBudget(shm) == GreaterD(shm, ToDigits(MAX_SHARED_MEMORY_SIZE, Len(shm)))

\* The loop condition of the halving loop.
ShmLoopCond(c, kH, kW) ==
  OverBudget(ShmSize(c.threads, kH, kW)) /\ c.threads.x * c.threads.y >= MinThreads

\* One iteration of the halving loop.
ShmLoopBody(c) ==
  IF c.threads.x >= c.threads.y
  THEN [grids   |-> [c.grids EXCEPT !.x = AddD(c.grids.x, c.grids.x)],
        threads |-> [c.threads EXCEPT !.x = c.threads.x \div 2]]
  ELSE [grids   |-> [c.grids EXCEPT !.y = AddD(c.grids.y, c.grids.y)],
        threads |-> [c.threads EXCEPT !.y = c.threads.y \div 2]]

RECURSIVE ShmLoop(_, _, _)
ShmLoop(c, kH, kW) ==
  IF ShmLoopCond(c, kH, kW) THEN ShmLoop(ShmLoopBody(c), kH, kW) ELSE c

\* The whole call: the grid and block it leaves, the byte count, and whether
\* it ended by throwing runtime_error.
getSuitableShmConfig(grids, threads, kH, kW) ==
  LET c   == ShmLoop([grids |-> grids, threads |-> threads], kH, kW)
      shm == ShmSize(c.threads, kH, kW)
  IN [grids |-> c.grids, threads |-> c.threads, SHM_SIZE |-> shm,
      raised |-> OverBudget(shm)]

(***************************************************************************)
(* Device buffers and kernel launches.                                     *)
(*                                                                         *)
(* An operand of a launch is a buffer and a record                         *)
(* [base, H, W, step]: the pointer offset into the buffer, the matrix      *)
(* shape the kernel is told, and the per-z-slice stride.  A launch is      *)
(* modelled by the set of writes <<address, thread, value>> its threads    *)
(* make; junk is what an unwritten shared-memory cell or an out-of-range   *)
(* global read yields.                                                     *)
(***************************************************************************)
Operand(base, H, W, step) == [base |-> base, H |-> H, W |-> W, step |-> step]

Peek(buf, a, junk) == IF a \in DOMAIN buf THEN buf[a] ELSE junk

\* Mutant of StridedLoop: each thread runs the loop body once.
StridedLoop_once(tid, nThreads, total) == {t \in Idx(total) : t = tid}

\* for (; tid < total; tid += nThreads): the values tid takes in one thread.
StridedLoop(tid, nThreads, total) ==
  {t \in Idx(total) : t >= tid /\ (t - tid) % nThreads = 0}

\* The indices visited by the threads of one block together.
BlockLoop(nThreads, total) ==
  UNION {StridedLoop(tid, nThreads, total) : tid \in Idx(nThreads)}

\* Mutant of load_kernel_dest: the kernel is copied as it is whatever the flag.
load_kernel_dest_unflipped(rot180kernel, tid, kH, kW) == tid

\* The cell of K that load_kernel_into_shm fills from kernel[tid].
load_kernel_dest(rot180kernel, tid, kH, kW) ==
  LET xx == tid \div kH
      yy == tid % kH
  IN IF rot180kernel THEN xx * kH + yy
     ELSE (kW - 1 - xx) * kH + (kH - 1 - yy)

\* K once every thread of the block has run load_kernel_into_shm.
load_kernel_into_shm(rot180kernel, kernel, kbase, kH, kW, nThreads, junk) ==
  LET visited == {t \in BlockLoop(nThreads, kW * kH) : t \div kH < kW /\ t % kH < kH}
  IN [p \in Idx(kW * kH) |->
        LET src == {t \in visited : load_kernel_dest(rot180kernel, t, kH, kW) = p}
        IN IF src = {} THEN junk
           ELSE Peek(kernel, kbase + (CHOOSE t \in src : TRUE), junk)]

\* Mutant of data_index: the data is never rotated.
data_index_unrotated(rot180data, xx, yy, H, W) == xx * H + yy

\* The data cell a tile load reads for image position (xx, yy).
data_index(rot180data, xx, yy, H, W) ==
  IF rot180data THEN (W - 1 - xx) * H + (H - 1 - yy) ELSE xx * H + yy

HeightStep(threads, kH) == threads.y + kH - 1
WidthStep(threads, kW) == threads.x + kW - 1

\* D of convn_valid_kernel_with_shm at the barrier, for the block at (x0, y0).
valid_tile(rot180data, data, dbase, H, W, kH, kW, threads, x0, y0, junk) ==
  LET HEIGHT_STEP == HeightStep(threads, kH)
      nTotal  == WidthStep(threads, kW) * HEIGHT_STEP
      visited == BlockLoop(threads.x * threads.y, nTotal)
  IN [t \in Idx(nTotal) |->
        LET xx == (t \div HEIGHT_STEP) + x0
            yy == (t % HEIGHT_STEP) + y0
        IN IF t \notin visited \/ xx >= W \/ yy >= H THEN junk
           ELSE Peek(data, dbase + data_index(rot180data, xx, yy, H, W), junk)]

\* Mutant of full_tile: the block corner is not moved back by the kernel size.
full_tile_unshifted(rot180data, data, dbase, H, W, kH, kW, threads, x0, y0, junk) ==
  LET HEIGHT_STEP == threads.y + kH - 1
      nTotal  == (threads.x + kW - 1) * HEIGHT_STEP
  IN [t \in Idx(nTotal) |->
        LET xx == x0 + (t \div HEIGHT_STEP)
            yy == y0 + (t % HEIGHT_STEP)
        IN IF xx < 0 \/ xx >= W \/ yy < 0 \/ yy >= H THEN 0
           ELSE Peek(data, dbase + xx * H + yy, junk)]

\* D of convn_full_kernel_with_shm at the barrier; (x0, y0) is the block corner
\* before the kernel moves it back by the kernel size.
full_tile(rot180data, data, dbase, H, W, kH, kW, threads, x0, y0, junk) ==
  LET HEIGHT_STEP == HeightStep(threads, kH)
      nTotal  == WidthStep(threads, kW) * HEIGHT_STEP
      visited == BlockLoop(threads.x * threads.y, nTotal)
  IN [t \in Idx(nTotal) |->
        LET xx == (x0 - (kW - 1)) + (t \div HEIGHT_STEP)
            yy == (y0 - (kH - 1)) + (t % HEIGHT_STEP)
        IN IF t \notin visited THEN junk
           ELSE IF xx < 0 \/ xx >= W \/ yy < 0 \/ yy >= H THEN 0
           ELSE Peek(data, dbase + data_index(rot180data, xx, yy, H, W), junk)]

\* sum += K[i * kH + j] * D[i * HEIGHT_STEP + j] over i < kW, j < kH, with D
\* already moved to the thread's corner `off`; n runs down from kW * kH - 1.
RECURSIVE shm_dot(_, _, _, _, _, _)
shm_dot(K, D, off, HEIGHT_STEP, kH, n) ==
  IF n < 0 THEN 0
  ELSE K[n] * D[off + (n \div kH) * HEIGHT_STEP + (n % kH)]
       + shm_dot(K, D, off, HEIGHT_STEP, kH, n - 1)

\* Mutant of output_address: every z-slice starts at the base.
output_address_flat(o, z, x, y) == o.base + x * o.H + y

\* The address of output pixel (x, y) of z-slice z.
output_address(o, z, x, y) == o.base + z * o.step + x * o.H + y

\* The writes of one block of a tiled launch, given its K and D.
block_writes(o, K, D, kH, kW, threads, bx, by, bz) ==
  LET HEIGHT_STEP == HeightStep(threads, kH)
  IN { <<output_address(o, bz, bx * threads.x + t[1], by * threads.y + t[2]),
         <<bx, by, bz, t[1], t[2]>>,
         shm_dot(K, D, t[1] * HEIGHT_STEP + t[2], HEIGHT_STEP, kH, kW * kH - 1)>> :
       t \in {u \in Idx(threads.x) \X Idx(threads.y) :
                bx * threads.x + u[1] < o.W /\ by * threads.y + u[2] < o.H} }

Blocks(grids) == Idx(grids.x) \X Idx(grids.y) \X Idx(grids.z)

\* convn_valid_kernel_with_shm<rot180data, rot180kernel><<<grids, threads>>>:
\* o is (vH, vW), d is (H, W), k is (kH, kW).
convn_valid_kernel_with_shm(rot180data, rot180kernel, o, data, d, kernel, k, grids, threads, junk) ==
  UNION { block_writes(o,
            load_kernel_into_shm(rot180kernel, kernel, k.base + b[3] * k.step,
                                 k.H, k.W, threads.x * threads.y, junk),
            valid_tile(rot180data, data, d.base + b[3] * d.step, d.H, d.W,
                       k.H, k.W, threads, b[1] * threads.x, b[2] * threads.y, junk),
            k.H, k.W, threads, b[1], b[2], b[3]) : b \in Blocks(grids) }

\* convn_full_kernel_with_shm<rot180data, rot180kernel><<<grids, threads>>>:
\* o is (fH, fW), d is (H, W), k is (kH, kW).
convn_full_kernel_with_shm(rot180data, rot180kernel, o, data, d, kernel, k, grids, threads, junk) ==
  UNION { block_writes(o,
            load_kernel_into_shm(rot180kernel, kernel, k.base + b[3] * k.step,
                                 k.H, k.W, threads.x * threads.y, junk),
            full_tile(rot180data, data, d.base + b[3] * d.step, d.H, d.W,
                      k.H, k.W, threads, b[1] * threads.x, b[2] * threads.y, junk),
            k.H, k.W, threads, b[1], b[2], b[3]) : b \in Blocks(grids) }

\* output[...] += sum, for every write of a launch (the launch's threads
\* address distinct cells: see NoSharedElement).
Accumulate(output, writes) ==
  [p \in DOMAIN output |-> output[p] + SumWrites({w \in writes : w[1] = p})]

\* output[...] = sum, for every write of a launch.
Overwrite(output, writes) ==
  [p \in DOMAIN output |->
     IF \E w \in writes : w[1] = p
     THEN (CHOOSE w \in writes : w[1] = p)[3] ELSE output[p]]

(***************************************************************************)
(* The direct kernels: one thread per output pixel, reading global memory. *)
(***************************************************************************)
\* The pixels (x, y) the threads of a launch stand for.
ThreadPixels(grids, threads) ==
  {<<b[1] * threads.x + c[1], b[2] * threads.y + c[2]>> :
     b \in Idx(grids.x) \X Idx(grids.y), c \in Idx(threads.x) \X Idx(threads.y)}

\* convn_valid_kernel<<<grids, threads>>>(output, data, kernel, H, W, kH, kW)
convn_valid_kernel(data, kernel, H, W, kH, kW, grids, threads, junk) ==
  LET vH == H - kH + 1
      vW == W - kW + 1
  IN { <<q[1] * vH + q[2], q,
         LET term(e) == Peek(kernel, e[1] * kH + e[2], junk)
                        * Peek(data, ((q[1] + kW - 1) - e[1]) * H + ((q[2] + kH - 1) - e[2]),
                               junk)
         IN SumOver(Idx(kW) \X Idx(kH), term)>> :
       q \in {r \in ThreadPixels(grids, threads) : ~(r[1] >= vW \/ r[2] >= vH)} }

\* convn_same_kernel<<<grids, threads>>>(output, data, kernel, H, W, kH, kW)
convn_same_kernel(data, kernel, H, W, kH, kW, grids, threads, junk) ==
  LET i0 == kW \div 2
      j0 == kH \div 2
  IN { <<q[1] * H + q[2], q,
         LET term(e) ==
               LET ii == q[1] - e[1] + i0
                   jj == q[2] - e[2] + j0
               IN IF ii < 0 \/ ii >= W \/ jj < 0 \/ jj >= H THEN 0
                  ELSE Peek(kernel, e[1] * kH + e[2], junk) * Peek(data, ii * H + jj, junk)
         IN SumOver(Idx(kW) \X Idx(kH), term)>> :
       q \in {r \in ThreadPixels(grids, threads) : ~(r[1] >= W \/ r[2] >= H)} }

\* convn_full_kernel<<<grids, threads>>>(output, data, kernel, H, W, kH, kW)
convn_full_kernel(data, kernel, H, W, kH, kW, grids, threads, junk) ==
  LET fH == H + kH - 1
      fW == W + kW - 1
  IN { <<q[1] * fH + q[2], q,
         LET term(e) ==
               LET ii == q[1] - e[1]
                   jj == q[2] - e[2]
               IN IF ii < 0 \/ ii >= W \/ jj < 0 \/ jj >= H THEN 0
                  ELSE Peek(kernel, e[1] * kH + e[2], junk) * Peek(data, ii * H + jj, junk)
         IN SumOver(Idx(kW) \X Idx(kH), term)>> :
       q \in {r \in ThreadPixels(grids, threads) : ~(r[1] >= fW \/ r[2] >= fH)} }

(***************************************************************************)
(* Exact fractions <<numerator, denominator>> in lowest terms, for the     *)
(* buffers the pooling code divides.                                       *)
(***************************************************************************)
RECURSIVE GCD(_, _)
GCD(a, b) == IF b = 0 THEN a ELSE GCD(b, a % b)

Abs(a) == IF a < 0 THEN -a ELSE a

Frac(n, d) == LET g == GCD(Abs(n), Abs(d)) IN
              IF d < 0 THEN <<(-n) \div g, (-d) \div g>> ELSE <<n \div g, d \div g>>

FracInt(n) == <<n, 1>>
FracAdd(a, b) == Frac(a[1] * b[2] + b[1] * a[2], a[2] * b[2])
FracDiv(a, k) == Frac(a[1], a[2] * k)

U8(v) == v % 256
U16(v) == v % 65536

\* sum += src[i * H + j] for i, j < scale with y + i < W and x + j < H; n runs
\* down from scale * scale - 1.
RECURSIVE block_sum(_, _, _, _, _, _, _, _, _)
block_sum(src, sbase, x, y, H, W, scale, n, junk) ==
  IF n < 0 THEN FracInt(0)
  ELSE LET i == n \div scale
           j == n % scale
           rest == block_sum(src, sbase, x, y, H, W, scale, n - 1, junk)
       IN IF y + i < W /\ x + j < H
          THEN FracAdd(rest, Peek(src, sbase + i * H + j, FracInt(junk)))
          ELSE rest

\* downsample_kernel<<<grids, threads>>>(dst, src, scale, H, W): the writes.
downsample_kernel(src, dbase, sbase, scale0, H0, W0, grids, threads, junk) ==
  LET scale == U8(scale0)
      H == U8(H0)
      W == U8(W0)
      h == U8(H \div scale)
      w == U8(W \div scale)
  IN { <<dbase + t.z * h * w + t.y * h + t.x, t,
         FracDiv(block_sum(src, sbase + t.z * H * W + U16(t.y * scale) * H + U16(t.x * scale),
                           U16(t.x * scale), U16(t.y * scale), H, W, scale,
                           scale * scale - 1, junk),
                 scale * scale)>> :
       t \in {u \in {[x |-> U16(b[1] * threads.x + c[1]), y |-> U16(b[2] * threads.y + c[2]),
                      z |-> b[3], b |-> b, c |-> c] :
                       b \in Blocks(grids), c \in Idx(threads.x) \X Idx(threads.y)} :
                ~(u.y >= w \/ u.x >= h)} }

\* upsample_kernel<<<grids, threads>>>(dst, src, h, w, H, W): the writes.
upsample_kernel(src, dbase, sbase, h0, w0, H0, W0, grids, threads, junk) ==
  LET h == U8(h0)
      w == U8(w0)
      H == U8(H0)
      W == U8(W0)
      scale == IF h = 0 THEN 0 ELSE U8(H \div h)
  IN { <<dbase + t.z * H * W + t.y * H + t.x, t,
         \* a division by zero yields anything
         IF scale = 0 THEN FracInt(junk)
         ELSE LET sy0 == U8(t.y \div scale)
                  sx0 == U8(t.x \div scale)
                  sy  == IF sy0 = w THEN U8(sy0 - 1) ELSE sy0
                  sx  == IF sx0 = h THEN U8(sx0 - 1) ELSE sx0
              IN Peek(src, sbase + t.z * h * w + sy * h + sx, FracInt(junk))>> :
       t \in {u \in {[x |-> U16(b[1] * threads.x + c[1]), y |-> U16(b[2] * threads.y + c[2]),
                      z |-> b[3], b |-> b, c |-> c] :
                       b \in Blocks(grids), c \in Idx(threads.x) \X Idx(threads.y)} :
                ~(u.y >= W \/ u.x >= H)} }

(***************************************************************************)
(* Matrices (device_matrix<float>) and what the callers do with them.      *)
(***************************************************************************)
Mat(rows, cols, data) == [rows |-> rows, cols |-> cols, data |-> data]

EmptyMat == Mat(0, 0, <<>>)

\* mat(rows, cols, x): every cell x.
FilledMat(rows, cols, x) == Mat(rows, cols, [p \in Idx(rows * cols) |-> x])

\* m.resize(rows, cols): a buffer that is large enough is kept as it is, a
\* new one holds whatever the allocation holds.
resize(m, rows, cols, junk) ==
  Mat(rows, cols, [p \in Idx(rows * cols) |->
                     IF rows * cols <= m.rows * m.cols THEN m.data[p] ELSE junk])

\* m.resize(rows, cols, x): resize, then fill with x.
resize_fill(m, rows, cols, x) == FilledMat(rows, cols, x)

\* ALLOCATE_GRIDS_AND_THREADS(xExtent, yExtent): a grid of blocks of the
\* given shape that covers xExtent x yExtent.
ALLOCATE_GRIDS(xExtent, yExtent, threads) ==
  [x |-> CeilDiv(xExtent, threads.x), y |-> CeilDiv(yExtent, threads.y), z |-> 1]

BlockShapes == {[x |-> a, y |-> b] : a \in Window(MaxBlock), b \in Window(MaxBlock)}

(***************************************************************************)
(* Launch records.  The host code issues launches on the default stream;   *)
(* each names the kernel, its template flags, its three operands (buffer   *)
(* name and Operand) and its grid and block.  Buffers are named by tuples: *)
(* <<"fin">>, <<"fout">>, <<"delta">>, <<"error">>, <<"kernel", i, j>>,    *)
(* <<"Z", i>>.                                                             *)
(***************************************************************************)
Launch(kind, rot180data, rot180kernel, out, o, data, d, kern, k, grids, threads) ==
  [kind |-> kind, rot180data |-> rot180data, rot180kernel |-> rot180kernel,
   out |-> out, o |-> o, data |-> data, d |-> d, kern |-> kern, k |-> k,
   grids |-> grids, threads |-> threads]

\* A pooling launch: a is the kernel's scalar arguments.
PoolLaunch(kind, out, obase, data, dbase, a, grids, threads) ==
  [kind |-> kind, out |-> out, obase |-> obase, data |-> data, dbase |-> dbase,
   a |-> a, grids |-> grids, threads |-> threads]

\* The writes of a launch on device memory mem.
LaunchWrites(mem, l, junk) ==
  CASE l.kind = "valid" ->
         convn_valid_kernel_with_shm(l.rot180data, l.rot180kernel, l.o, mem[l.data], l.d,
                                     mem[l.kern], l.k, l.grids, l.threads, junk)
    [] l.kind = "full" ->
         convn_full_kernel_with_shm(l.rot180data, l.rot180kernel, l.o, mem[l.data], l.d,
                                    mem[l.kern], l.k, l.grids, l.threads, junk)
    [] l.kind = "downsample" ->
         downsample_kernel(mem[l.data], l.obase, l.dbase, l.a.scale, l.a.H, l.a.W,
                           l.grids, l.threads, junk)
    [] l.kind = "upsample" ->
         upsample_kernel(mem[l.data], l.obase, l.dbase, l.a.h, l.a.w, l.a.H, l.a.W,
                         l.grids, l.threads, junk)
    [] l.kind = "scale" ->
         {<<p, p, FracDiv(mem[l.out][p], l.k)>> : p \in DOMAIN mem[l.out]}
    [] l.kind = "subtract" ->
         {<<p, p, mem[l.out][p] - mem[l.data][l.dbase + p]>> : p \in DOMAIN mem[l.out]}

\* The tiled kernels end in `output[...] += sum`, the others in a plain store.
Accumulates(l) == l.kind \in {"valid", "full"}

\* A launch run to completion.
RunLaunch(mem, l, junk) ==
  [mem EXCEPT ![l.out] = IF Accumulates(l) THEN Accumulate(@, LaunchWrites(mem, l, junk))
                         ELSE Overwrite(@, LaunchWrites(mem, l, junk))]

\* The launches of a call, run in issue order.
RECURSIVE RunLaunches(_, _, _)
RunLaunches(mem, ls, junk) ==
  IF ls = <<>> THEN mem
  ELSE RunLaunches(RunLaunch(mem, Head(ls), junk), Tail(ls), junk)

(***************************************************************************)
(* ConvolutionalLayer.                                                     *)
(***************************************************************************)
get_output_img_size(L) ==
  IF L.kind = "conv"
  THEN Size(L.img_in.m - L.kernel.m + 1, L.img_in.n - L.kernel.n + 1)
  ELSE SizeDiv(L.img_in, L.scale)

KernelNames(L) ==
  IF L.kind = "conv" THEN {<<"kernel", i, j>> : i \in Idx(L.nIn), j \in Idx(L.nOut)} ELSE {}

GradientNames(L) == IF L.kind = "conv" THEN {<<"Z", i>> : i \in Idx(L.nIn)} ELSE {}

\* The rows of a layer's output and input matrices: the maps and one more row.
OutRows(L) == area(get_output_img_size(L)) * L.nOut + 1
InRows(L) == area(L.img_in) * L.nIn + 1

\* hmat bias(...) filled map by map, then fout = mat(bias) * mat(1, batch, 1.0f):
\* the last cell of bias is never assigned.
conv_bias_seed(L, b, batch, junk) ==
  LET a == area(get_output_img_size(L))
      hbias == [r \in Idx(OutRows(L)) |-> IF r < a * L.nOut THEN b[r \div a] ELSE junk]
  IN Mat(OutRows(L), batch, [p \in Idx(OutRows(L) * batch) |-> hbias[p % OutRows(L)] * 1])

\* The grid, block and shared-memory size a call ends up with.
conv_config(xExtent, yExtent, z, threads, kH, kW) ==
  LET g == ALLOCATE_GRIDS(xExtent, yExtent, threads)
  IN getSuitableShmConfig(Dim3(g.x, g.y, z), threads, kH, kW)

\* The launches of ConvolutionalLayer::feedForward, in issue order.
feedForward_launches(L, finRows, batch, threads) ==
  LET img_out == get_output_img_size(L)
      c == conv_config(img_out.n, img_out.m, batch, threads, L.kernel.m, L.kernel.n)
  IN [n \in 1..(L.nOut * L.nIn) |->
        LET j == (n - 1) \div L.nIn
            i == (n - 1) % L.nIn
        IN Launch("valid", FALSE, FALSE,
                  <<"fout">>, Operand(j * area(img_out), img_out.m, img_out.n, OutRows(L)),
                  <<"fin">>, Operand(i * area(L.img_in), L.img_in.m, L.img_in.n, finRows),
                  <<"kernel", i, j>>, Operand(0, L.kernel.m, L.kernel.n, 0),
                  GridInts(c.grids), c.threads)]

\* The launches of ConvolutionalLayer::feedBackward, in issue order.
feedBackward_launches(L, deltaRows, batch, threads) ==
  LET img_out == get_output_img_size(L)
      c == conv_config(L.img_in.n, L.img_in.m, batch, threads, L.kernel.m, L.kernel.n)
  IN [n \in 1..(L.nIn * L.nOut) |->
        LET i == (n - 1) \div L.nOut
            j == (n - 1) % L.nOut
        IN Launch("full", FALSE, TRUE,
                  <<"error">>, Operand(i * area(L.img_in), L.img_in.m, L.img_in.n, InRows(L)),
                  <<"delta">>, Operand(j * area(img_out), img_out.m, img_out.n, deltaRows),
                  <<"kernel", i, j>>, Operand(0, L.kernel.m, L.kernel.n, 0),
                  GridInts(c.grids), c.threads)]

\* The launches of ConvolutionalLayer::update_kernel, in issue order.
update_kernel_launches(L, finRows, deltaRows, batch, threads) ==
  LET img_out == get_output_img_size(L)
      c == conv_config(L.kernel.n, L.kernel.m, L.nOut, threads, img_out.m, img_out.n)
  IN [n \in 1..(L.nIn * batch) |->
        LET i == (n - 1) \div batch
            b == (n - 1) % batch
        IN Launch("valid", TRUE, FALSE,
                  <<"Z", i>>, Operand(0, L.kernel.m, L.kernel.n, area(L.kernel)),
                  <<"fin">>, Operand(i * area(L.img_in) + b * finRows,
                                     L.img_in.m, L.img_in.n, 0),
                  <<"delta">>, Operand(b * deltaRows, img_out.m, img_out.n, area(img_out)),
                  GridInts(c.grids), c.threads)]

\* Whether the call's getSuitableShmConfig throws (the call then ends there).
feedForward_raises(L, batch, threads) ==
  LET img_out == get_output_img_size(L)
  IN conv_config(img_out.n, img_out.m, batch, threads, L.kernel.m, L.kernel.n).raised

feedBackward_raises(L, batch, threads) ==
  conv_config(L.img_in.n, L.img_in.m, batch, threads, L.kernel.m, L.kernel.n).raised

update_kernel_raises(L, threads) ==
  LET img_out == get_output_img_size(L)
  IN conv_config(L.kernel.n, L.kernel.m, L.nOut, threads, img_out.m, img_out.n).raised

\* Device memory as the launches of a layer call see it.
DeviceMem(L, kern, fin_, delta_, fout_, error_) ==
  [n \in KernelNames(L) \cup {<<"fin">>, <<"delta">>, <<"fout">>, <<"error">>}
        \cup GradientNames(L) |->
     IF n[1] = "kernel" THEN kern[n[2]][n[3]]
     ELSE IF n[1] = "fin" THEN fin_.data
     ELSE IF n[1] = "delta" THEN delta_.data
     ELSE IF n[1] = "fout" THEN fout_.data
     ELSE IF n[1] = "error" THEN error_.data
     ELSE [p \in Idx(area(L.kernel) * L.nOut) |-> 0]]

\* ConvolutionalLayer::feedForward(fout, fin): the matrix it leaves in fout.
conv_feedForward(L, kern, b, fin_, threads, junk) ==
  LET seed == conv_bias_seed(L, b, fin_.cols, junk)
      mem  == RunLaunches(DeviceMem(L, kern, fin_, EmptyMat, seed, EmptyMat),
                          feedForward_launches(L, fin_.rows, fin_.cols, threads), junk)
  IN IF feedForward_raises(L, fin_.cols, threads) THEN seed
     ELSE Mat(seed.rows, seed.cols, mem[<<"fout">>])

\* ConvolutionalLayer::feedBackward(error, delta): the matrix it leaves in error.
conv_feedBackward(L, kern, error_, delta_, threads, junk) ==
  LET zero == resize_fill(error_, InRows(L), delta_.cols, 0)
      mem  == RunLaunches(DeviceMem(L, kern, EmptyMat, delta_, EmptyMat, zero),
                          feedBackward_launches(L, delta_.rows, delta_.cols, threads), junk)
  IN IF feedBackward_raises(L, delta_.cols, threads) THEN zero
     ELSE Mat(zero.rows, zero.cols, mem[<<"error">>])

\* reshapeVectors2Images(data, s)[i]: column i of data as an s.m x s.n image.
reshapeVectors2Images(data, rows, s, i) ==
  [p \in Idx(area(s)) |-> data[i * rows + p]]

\* ConvolutionalLayer::update_kernel(fin, delta): the kernels it leaves.
conv_update_kernel(L, kern, fin_, delta_, threads, junk) ==
  LET mem == RunLaunches(DeviceMem(L, kern, fin_, delta_, EmptyMat, EmptyMat),
                         update_kernel_launches(L, fin_.rows, delta_.rows, fin_.cols,
                                                threads), junk)
  IN IF update_kernel_raises(L, threads) THEN kern
     ELSE [i \in Idx(L.nIn) |-> [j \in Idx(L.nOut) |->
        LET img == reshapeVectors2Images(mem[<<"Z", i>>], area(L.kernel), L.kernel, j)
        IN [p \in Idx(area(L.kernel)) |-> kern[i][j][p] - img[p]]]]

(***************************************************************************)
(* SubSamplingLayer.  Its matrices hold fractions.                         *)
(***************************************************************************)
\* The launches of SubSamplingLayer::feedForward, in issue order.
sub_feedForward_launches(L, finRows, batch, threads) ==
  LET img_out == get_output_img_size(L)
      g == ALLOCATE_GRIDS(img_out.m, img_out.n, threads)
  IN [n \in 1..batch |->
        PoolLaunch("downsample", <<"fout">>, (n - 1) * OutRows(L),
                   <<"fin">>, (n - 1) * finRows,
                   [scale |-> L.scale, H |-> L.img_in.m, W |-> L.img_in.n],
                   [g EXCEPT !.z = L.nOut], threads)]

\* The launches of SubSamplingLayer::feedBackward, in issue order.
sub_feedBackward_launches(L, deltaRows, batch, threads) ==
  LET img_out == get_output_img_size(L)
      g == ALLOCATE_GRIDS(L.img_in.m, L.img_in.n, threads)
  IN [n \in 1..batch |->
        PoolLaunch("upsample", <<"error">>, (n - 1) * InRows(L),
                   <<"delta">>, (n - 1) * deltaRows,
                   [h |-> img_out.m, w |-> img_out.n, H |-> L.img_in.m, W |-> L.img_in.n],
                   [g EXCEPT !.z = L.nIn], threads)]

\* SubSamplingLayer::feedForward(fout, fin): the matrix it leaves in fout.
sub_feedForward(L, fout_, fin_, threads, junk) ==
  LET out == resize(fout_, OutRows(L), fin_.cols, FracInt(junk))
      mem == RunLaunches(DeviceMem(L, <<>>, fin_, EmptyMat, out, EmptyMat),
                         sub_feedForward_launches(L, fin_.rows, fin_.cols, threads), junk)
  IN Mat(out.rows, out.cols, mem[<<"fout">>])

\* error *= x, with x = 1.0f / k.
scale_mat(m, k) == Mat(m.rows, m.cols, [p \in Idx(m.rows * m.cols) |-> FracDiv(m.data[p], k)])

\* SubSamplingLayer::feedBackward(error, delta): the matrix it leaves in error.
sub_feedBackward(L, error_, delta_, threads, junk) ==
  LET out == resize(error_, InRows(L), delta_.cols, FracInt(junk))
      mem == RunLaunches(DeviceMem(L, <<>>, EmptyMat, delta_, EmptyMat, out),
                         sub_feedBackward_launches(L, delta_.rows, delta_.cols, threads), junk)
  IN scale_mat(Mat(out.rows, out.cols, mem[<<"error">>]), L.scale * L.scale)

(***************************************************************************)
(* The layers: a layer is built with its data (Init), then one of its      *)
(* calls is made.  The call runs with some block shape and some content of *)
(* uninitialised memory; the caller's output matrices are new or hold an   *)
(* earlier result of the same shape.                                       *)
(***************************************************************************)
Sizes(S) == {Size(m, n) : m \in S, n \in S}

ConvLayers ==
  {[kind |-> "conv", nIn |-> a, nOut |-> b, kernel |-> k, img_in |-> s, scale |-> 1] :
     a \in Window(MaxMaps), b \in Window(MaxMaps),
     k \in Sizes(Window(MaxKer)), s \in Sizes(Window(MaxImg))}

SubLayers ==
  {[kind |-> "sub", nIn |-> a, nOut |-> a, kernel |-> Size(1, 1), img_in |-> s,
    scale |-> c] :
     a \in Window(MaxMaps), c \in Window(MaxScale), s \in Sizes(Window(MaxImg))}

\* A matrix of `rows` rows whose last row is 1, the others pattern `seed`.
DataMat(rows, cols, seed) ==
  Mat(rows, cols, [p \in Idx(rows * cols) |-> IF p % rows = rows - 1 THEN 1 ELSE Val(seed, p)])

FracMat(m) == Mat(m.rows, m.cols, [p \in Idx(m.rows * m.cols) |-> FracInt(m.data[p])])

NoCall == [call |-> "none", calls |-> 0, raised |-> FALSE]

InitConv ==
  \E L \in ConvLayers, batch \in Window(MaxBatch), used \in BOOLEAN :
    /\ L.kernel.m <= L.img_in.m /\ L.kernel.n <= L.img_in.n
    /\ layer = L
    /\ kernels = [i \in Idx(L.nIn) |-> [j \in Idx(L.nOut) |->
                    [p \in Idx(area(L.kernel)) |-> Val(2 * i + j + 1, p + 1)]]]
    /\ bias = [j \in Idx(L.nOut) |-> Val(0, j + 3)]
    /\ fin = DataMat(InRows(L), batch, 0)
    /\ delta = DataMat(OutRows(L), batch, 4)
    /\ fout = IF used THEN DataMat(OutRows(L), batch, 5) ELSE EmptyMat
    /\ error = IF used THEN DataMat(InRows(L), batch, 6) ELSE EmptyMat

InitSub ==
  \E L \in SubLayers, batch \in Window(MaxBatch), used \in BOOLEAN :
    /\ L.scale <= L.img_in.m /\ L.scale <= L.img_in.n
    /\ layer = L
    /\ kernels = <<>>
    /\ bias = <<>>
    /\ fin = FracMat(DataMat(InRows(L), batch, 0))
    /\ delta = FracMat(DataMat(OutRows(L), batch, 4))
    /\ fout = IF used THEN FracMat(DataMat(OutRows(L), batch, 5)) ELSE EmptyMat
    /\ error = IF used THEN FracMat(DataMat(InRows(L), batch, 6)) ELSE EmptyMat

NoUtilCall == [fn |-> "none"]
NoResult == [outcome |-> "none"]

\* The host outside any call, nothing issued, the device idle.
NotCalled == [at |-> "idle"]
Idle == [busy |-> FALSE]

DevIdle ==
  /\ pc = NotCalled
  /\ stream = <<>>
  /\ running = Idle
  /\ device = <<>>

Init ==
  /\ InitConv \/ InitSub
  /\ last = NoCall
  /\ ucall = NoUtilCall
  /\ uresult = NoResult
  /\ DevIdle

Returned(call, raised) ==
  last' = [call |-> call, calls |-> last.calls + 1, raised |-> raised]

ConvFeedForward ==
  /\ layer.kind = "conv"
  /\ last.calls = 0
  /\ \E threads \in BlockShapes, junk \in Junk :
       /\ fout' = conv_feedForward(layer, kernels, bias, fin, threads, junk)
       /\ Returned("feedForward", feedForward_raises(layer, fin.cols, threads))
  /\ UNCHANGED <<layer, kernels, bias, fin, delta, error, utilVars, devVars>>

ConvFeedBackward ==
  /\ layer.kind = "conv"
  /\ last.calls = 0
  /\ \E threads \in BlockShapes, junk \in Junk :
       /\ error' = conv_feedBackward(layer, kernels, error, delta, threads, junk)
       /\ Returned("feedBackward", feedBackward_raises(layer, delta.cols, threads))
  /\ UNCHANGED <<layer, kernels, bias, fin, delta, fout, utilVars, devVars>>

ConvUpdateKernel ==
  /\ layer.kind = "conv"
  /\ last.calls = 0
  /\ \E threads \in BlockShapes, junk \in Junk :
       /\ kernels' = conv_update_kernel(layer, kernels, fin, delta, threads, junk)
       /\ Returned("update_kernel", update_kernel_raises(layer, threads))
  /\ UNCHANGED <<layer, bias, fin, delta, fout, error, utilVars, devVars>>

SubFeedForward ==
  /\ layer.kind = "sub"
  /\ last.calls = 0
  /\ \E threads \in BlockShapes, junk \in Junk :
       fout' = sub_feedForward(layer, fout, fin, threads, junk)
  /\ Returned("feedForward", FALSE)
  /\ UNCHANGED <<layer, kernels, bias, fin, delta, error, utilVars, devVars>>

SubFeedBackward ==
  /\ layer.kind = "sub"
  /\ last.calls = 0
  /\ \E threads \in BlockShapes, junk \in Junk :
       error' = sub_feedBackward(layer, error, delta, threads, junk)
  /\ Returned("feedBackward", FALSE)
  /\ UNCHANGED <<layer, kernels, bias, fin, delta, fout, utilVars, devVars>>

Next ==
  \/ ConvFeedForward
  \/ ConvFeedBackward
  \/ ConvUpdateKernel
  \/ SubFeedForward
  \/ SubFeedBackward

Spec == Init /\ [][Next]_vars

(***************************************************************************)
(* The gradient check: a convolutional layer is built, then updated (or    *)
(* fed forward) once.                                                      *)
(***************************************************************************)
InitGrad ==
  /\ \E L \in ConvLayers :
       /\ L.img_in \in {Size(MaxImg - 1, MaxImg), Size(MaxImg, MaxImg - 1)}
       /\ layer = L
       /\ kernels = [i \in Idx(L.nIn) |-> [j \in Idx(L.nOut) |->
                       [p \in Idx(area(L.kernel)) |-> Val(2 * i + j + 1, p + 1)]]]
       /\ bias = [j \in Idx(L.nOut) |-> Val(0, j + 3)]
       /\ fin = DataMat(InRows(L), MaxBatch, 0)
       /\ delta = DataMat(OutRows(L), MaxBatch, 4)
  /\ fout = EmptyMat
  /\ error = EmptyMat
  /\ last = NoCall
  /\ ucall = NoUtilCall
  /\ uresult = NoResult
  /\ DevIdle

NextGrad ==
  \/ ConvUpdateKernel
  \/ ConvFeedForward

SpecGrad == InitGrad /\ [][NextGrad]_vars

(***************************************************************************)
(* What the claims speak of, read off the matrices.                        *)
(***************************************************************************)

\* Pixel (x, y) of map `map` of batch column b of matrix m, whose maps are
\* s.m x s.n images; x counts columns of the image, y rows.
Pixel(m, s, b, map, x, y) == m.data[b * m.rows + map * area(s) + x * s.m + y]

\* The same, with 0 outside the image.
PixelOrZero(m, s, b, map, x, y) ==
  IF x < 0 \/ x >= s.n \/ y < 0 \/ y >= s.m THEN 0 ELSE Pixel(m, s, b, map, x, y)

\* Entry (u, v) of a kernel: u counts columns, v rows.
KernelAt(kern, L, i, j, u, v) == kern[i][j][u * L.kernel.m + v]

KernelPositions(L) == Idx(L.kernel.n) \X Idx(L.kernel.m)

OutPixels(L) == Idx(get_output_img_size(L).n) \X Idx(get_output_img_size(L).m)
InPixels(L) == Idx(L.img_in.n) \X Idx(L.img_in.m)

AfterConv(call) == layer.kind = "conv" /\ last.call = call /\ ~last.raised

\* bias_j + sum over i, u, v of kernel_ij[u, v] * input_i,b[x + u, y + v]
CrossCorrelation(b, j, x, y) ==
  LET term(e) == KernelAt(kernels, layer, e[1], j, e[2][1], e[2][2])
                 * Pixel(fin, layer.img_in, b, e[1], x + e[2][1], y + e[2][2])
  IN bias[j] + SumOver(Idx(layer.nIn) \X KernelPositions(layer), term)

\* bias_j + sum over i, u, v of kernel_ij[u, v] * input_i,b[x + kW-1-u, y + kH-1-v]
Convolution(b, j, x, y) ==
  LET term(e) == KernelAt(kernels, layer, e[1], j, e[2][1], e[2][2])
                 * Pixel(fin, layer.img_in, b, e[1],
                         x + layer.kernel.n - 1 - e[2][1],
                         y + layer.kernel.m - 1 - e[2][2])
  IN bias[j] + SumOver(Idx(layer.nIn) \X KernelPositions(layer), term)

\* C1, as claimed: after ConvolutionalLayer::feedForward every output pixel
\* (x, y) of every output map j and batch element b holds bias_j plus the
\* cross-correlation (kernel not flipped) of the input maps with kernel_ij.
C1_FeedForwardIsCrossCorrelation ==
  AfterConv("feedForward") =>
    \A b \in Idx(fin.cols), j \in Idx(layer.nOut), q \in OutPixels(layer) :
      Pixel(fout, get_output_img_size(layer), b, j, q[1], q[2])
        = CrossCorrelation(b, j, q[1], q[2])

\* C1, amended: after ConvolutionalLayer::feedForward every output pixel
\* (x, y) of every output map j and batch element b holds bias_j plus the
\* VALID convolution with the kernel flipped by 180 degrees: the sum over i,
\* u, v of kernel_ij[u, v] * input_i,b[x + kW - 1 - u, y + kH - 1 - v].
C1_FeedForwardIsConvolution ==
  AfterConv("feedForward") =>
    \A b \in Idx(fin.cols), j \in Idx(layer.nOut), q \in OutPixels(layer) :
      Pixel(fout, get_output_img_size(layer), b, j, q[1], q[2])
        = Convolution(b, j, q[1], q[2])

\* A feedForward has returned on a layer with several input and output maps
\* and a kernel that its 180-degree rotation changes, over a batch.
C1_Witness ==
  /\ AfterConv("feedForward")
  /\ layer.nIn > 1 /\ layer.nOut > 1 /\ fin.cols > 1
  /\ layer.kernel.m # layer.kernel.n
  /\ layer.img_in.m # layer.img_in.n
  /\ \E p \in KernelPositions(layer) :
       KernelAt(kernels, layer, 1, 1, p[1], p[2])
         # KernelAt(kernels, layer, 1, 1, layer.kernel.n - 1 - p[1],
                    layer.kernel.m - 1 - p[2])
  /\ \E q \in OutPixels(layer) :
       Convolution(1, 1, q[1], q[2]) # CrossCorrelation(1, 1, q[1], q[2])

\* C2: after ConvolutionalLayer::feedBackward every pixel (x, y) of every
\* input map i and batch element b of the upstream error holds the sum over
\* j, u, v of kernel_ij[u, v] * error_j[x - (kW-1) + u, y - (kH-1) + v], with
\* out-of-range error pixels read as 0, whatever the buffer held before.
C2_FeedBackwardIsFullConvolution ==
  AfterConv("feedBackward") =>
    /\ error.rows = InRows(layer) /\ error.cols = delta.cols
    /\ \A b \in Idx(delta.cols), i \in Idx(layer.nIn), q \in InPixels(layer) :
         LET term(e) == KernelAt(kernels, layer, i, e[1], e[2][1], e[2][2])
                        * PixelOrZero(delta, get_output_img_size(layer), b, e[1],
                                      q[1] - (layer.kernel.n - 1) + e[2][1],
                                      q[2] - (layer.kernel.m - 1) + e[2][2])
         IN Pixel(error, layer.img_in, b, i, q[1], q[2])
              = SumOver(Idx(layer.nOut) \X KernelPositions(layer), term)

\* A feedBackward has returned into a buffer that held an earlier result, on
\* a layer with several maps and a kernel larger than one pixel, leaving a
\* non-zero upstream error.
C2_Witness ==
  /\ AfterConv("feedBackward")
  /\ fout # EmptyMat
  /\ layer.nIn > 1 /\ layer.nOut > 1 /\ delta.cols > 1
  /\ layer.kernel.m # layer.kernel.n
  /\ \E q \in InPixels(layer) : Pixel(error, layer.img_in, 1, 1, q[1], q[2]) # 0

\* The loss L = sum over batch elements, output maps and pixels of
\* error * feedForward(input), for the kernels kern.
Loss(kern) ==
  LET out == conv_feedForward(layer, kern, bias, fin,
                              [x |-> MaxBlock, y |-> MaxBlock], 0)
      term(e) == Pixel(delta, get_output_img_size(layer), e[1], e[2], e[3][1], e[3][2])
                 * Pixel(out, get_output_img_size(layer), e[1], e[2], e[3][1], e[3][2])
  IN SumOver(Idx(fin.cols) \X Idx(layer.nOut) \X OutPixels(layer), term)

\* kern with entry p of kernel (i, j) raised by one.
Bumped(kern, i, j, p) == [kern EXCEPT ![i][j][p] = @ + 1]

\* C3: ConvolutionalLayer::update_kernel(input, error) lowers every kernel
\* entry by exactly dL/dkernel_ij[u, v]; L being linear in each entry, that is
\* L(kernels with the entry raised by one) - L(kernels).
C3_UpdateKernelIsGradient ==
  [][(layer.kind = "conv" /\ last'.call = "update_kernel" /\ ~last'.raised
        /\ last'.calls = last.calls + 1) =>
       LET base == Loss(kernels) IN
       \A i \in Idx(layer.nIn), j \in Idx(layer.nOut), p \in Idx(area(layer.kernel)) :
         kernels[i][j][p] - kernels'[i][j][p] = Loss(Bumped(kernels, i, j, p)) - base]_vars

\* An update_kernel has returned on a layer with several maps and a
\* non-square kernel, and it changed some kernel.
C3_Witness ==
  /\ AfterConv("update_kernel")
  /\ layer.nIn > 1 /\ layer.nOut > 1 /\ fin.cols > 1
  /\ layer.kernel.m # layer.kernel.n
  /\ \E p \in Idx(area(layer.kernel)) : kernels[1][1][p] # Val(2 * 1 + 1 + 1, p + 1)

\* The matrix the last feed call produced.
Produced == IF last.call = "feedForward" THEN fout ELSE error

\* C8: bias-row invariant.  Whenever ConvolutionalLayer::feedForward,
\* ConvolutionalLayer::feedBackward, SubSamplingLayer::feedForward or
\* SubSamplingLayer::feedBackward returns, the matrix it produced has
\* area * maps + 1 rows and its last row is 1 in every batch column (which a
\* data value written into that row would break as well).
C8_BiasRowIsOne ==
  last.call \in {"feedForward", "feedBackward"} =>
    /\ Produced.rows = (IF last.call = "feedForward" THEN OutRows(layer) ELSE InRows(layer))
    /\ \A b \in Idx(Produced.cols) :
         Produced.data[b * Produced.rows + Produced.rows - 1]
           = (IF layer.kind = "conv" THEN 1 ELSE FracInt(1))

(***************************************************************************)
(* The host functions: get_convn_size, convn, downsample, upsample.        *)
(***************************************************************************)
ConvTypes == {"SAME", "SAME_SHM", "VALID", "VALID_SHM", "FULL", "FULL_SHM"}

Raised == [outcome |-> "raised"]
ReturnedValue(v) == [outcome |-> "returned", value |-> v]

Max(a, b) == IF a >= b THEN a ELSE b

\* get_convn_size(data, kernel, type); any type outside the enumeration
\* takes the default branch.
get_convn_size(data, kernel, type) ==
  CASE type \in {"SAME", "SAME_SHM"} -> ReturnedValue(data)
    [] type \in {"VALID", "VALID_SHM"} ->
         ReturnedValue(Size(Max(data.m - kernel.m + 1, 0), Max(data.n - kernel.n + 1, 0)))
    [] type \in {"FULL", "FULL_SHM"} ->
         ReturnedValue(Size(data.m + kernel.m - 1, data.n + kernel.n - 1))
    [] OTHER -> Raised

\* convn(data, kernel, type)
convn(data, kernel, type, threads, junk) ==
  LET H  == data.rows
      W  == data.cols
      kH == kernel.rows
      kW == kernel.cols
      s  == get_convn_size(Size(H, W), Size(kH, kW), type)
      output == FilledMat(s.value.m, s.value.n, junk)
      grids  == ALLOCATE_GRIDS(output.cols, output.rows, threads)
      launch(writes) == ReturnedValue(Mat(output.rows, output.cols,
                                          Overwrite(output.data, writes)))
  IN IF s.outcome = "raised" THEN Raised
     ELSE CASE type = "SAME" ->
                 launch(convn_same_kernel(data.data, kernel.data, H, W, kH, kW,
                                          grids, threads, junk))
            [] type = "VALID" ->
                 launch(convn_valid_kernel(data.data, kernel.data, H, W, kH, kW,
                                           grids, threads, junk))
            [] type = "FULL" ->
                 launch(convn_full_kernel(data.data, kernel.data, H, W, kH, kW,
                                          grids, threads, junk))
            [] type \in {"SAME_SHM", "VALID_SHM", "FULL_SHM"} -> ReturnedValue(output)
            [] OTHER -> Raised

\* downsample(x, scale, size)
downsample(x, scale, size, threads, junk) ==
  LET batch_size  == x.cols
      output_size == SizeDiv(size, scale)
      output == FilledMat(area(output_size), batch_size, FracInt(junk))
      grids  == [ALLOCATE_GRIDS(output_size.m, output_size.n, threads)
                   EXCEPT !.z = batch_size]
  IN IF x.rows # size.m * size.n THEN Raised
     ELSE ReturnedValue(Mat(output.rows, output.cols,
            Overwrite(output.data,
                      downsample_kernel(x.data, 0, 0, scale, output_size.m, output_size.n,
                                        grids, threads, junk))))

\* upsample(x, s, img)
upsample(x, s, img, threads, junk) ==
  LET batch_size == x.cols
      output == FilledMat(s.m * s.n, batch_size, FracInt(junk))
      grids  == [ALLOCATE_GRIDS(s.m, s.n, threads) EXCEPT !.z = batch_size]
  IN IF x.rows # img.m * img.n THEN Raised
     ELSE ReturnedValue(Mat(output.rows, output.cols,
            Overwrite(output.data,
                      upsample_kernel(x.data, 0, 0, img.m, img.n, s.m, s.n,
                                      grids, threads, junk))))

(***************************************************************************)
(* The utility functions called on their own: one call per behaviour, and  *)
(* an upsample of what a downsample returned.                              *)
(***************************************************************************)
\* A rows x cols matrix of pattern `seed`, with no trailing row.
PlainMat(rows, cols, seed) == Mat(rows, cols, [p \in Idx(rows * cols) |-> Val(seed, p)])

\* Block shapes getSuitableShmConfig leaves after shrinking a 32 x 32 block
\* for a kernel too large for it, with the grid it leaves for a 1 x 1 grid.
ShrunkConfigs ==
  {getSuitableShmConfig(Dim3(1, 1, 1), [x |-> 32, y |-> 32], k, k) : k \in {64, 70}}

\* The grids and blocks a tiled launch over xExtent x yExtent may be given.
TiledConfigs(xExtent, yExtent) ==
  {[grids |-> ALLOCATE_GRIDS(xExtent, yExtent, t), threads |-> t] : t \in BlockShapes}
  \cup {[grids |-> GridInts(c.grids), threads |-> c.threads] : c \in ShrunkConfigs}

InitUtil ==
  /\ layer = [kind |-> "none"]
  /\ kernels = <<>>
  /\ bias = <<>>
  /\ fin = EmptyMat
  /\ delta = EmptyMat
  /\ fout = EmptyMat
  /\ error = EmptyMat
  /\ last = NoCall
  /\ ucall = NoUtilCall
  /\ uresult = NoResult
  /\ DevIdle

GetConvnSize ==
  /\ ucall = NoUtilCall
  /\ \E d \in Sizes(Window(MaxImg)), k \in Sizes(Window(MaxKer)),
        type \in ConvTypes \cup {"UNKNOWN"} :
       /\ ucall' = [fn |-> "get_convn_size", data |-> d, kernel |-> k, type |-> type]
       /\ uresult' = get_convn_size(d, k, type)
  /\ UNCHANGED <<layerVars, devVars>>

Convn ==
  /\ ucall = NoUtilCall
  /\ \E d \in Sizes(Window(MaxImg)), k \in Sizes(Window(MaxKer)),
        type \in ConvTypes \cup {"UNKNOWN"}, threads \in BlockShapes, junk \in Junk :
       /\ ucall' = [fn |-> "convn", data |-> PlainMat(d.m, d.n, 0),
                    kernel |-> PlainMat(k.m, k.n, 2), type |-> type]
       /\ uresult' = convn(PlainMat(d.m, d.n, 0), PlainMat(k.m, k.n, 2), type, threads, junk)
  /\ UNCHANGED <<layerVars, devVars>>

\* The direct kernel, and the tiled kernel with both flags false on a zeroed
\* output, launched on the same data and kernel.
ConvnKernels ==
  /\ ucall = NoUtilCall
  /\ \E d \in Sizes(Window(MaxImg)), k \in Sizes(Window(MaxKer)), mode \in {"VALID", "FULL"},
        threads \in BlockShapes, junk \in Junk :
       LET data == PlainMat(d.m, d.n, 0)
           kern == PlainMat(k.m, k.n, 2)
           s    == get_convn_size(d, k, mode).value
           zero == [p \in Idx(area(s)) |-> 0]
           raw  == [p \in Idx(area(s)) |-> junk]
       IN \E c \in TiledConfigs(s.n, s.m) :
            /\ ucall' = [fn |-> "kernels", data |-> data, kernel |-> kern, mode |-> mode,
                         threads |-> c.threads]
            /\ uresult' =
                 [outcome |-> "returned",
                  direct |->
                    Overwrite(raw,
                      IF mode = "VALID"
                      THEN convn_valid_kernel(data.data, kern.data, d.m, d.n, k.m, k.n,
                                              ALLOCATE_GRIDS(s.n, s.m, threads), threads, junk)
                      ELSE convn_full_kernel(data.data, kern.data, d.m, d.n, k.m, k.n,
                                             ALLOCATE_GRIDS(s.n, s.m, threads), threads, junk)),
                  tiled |->
                    Accumulate(zero,
                      IF mode = "VALID"
                      THEN convn_valid_kernel_with_shm(FALSE, FALSE,
                             Operand(0, s.m, s.n, 0), data.data, Operand(0, d.m, d.n, 0),
                             kern.data, Operand(0, k.m, k.n, 0), c.grids, c.threads, junk)
                      ELSE convn_full_kernel_with_shm(FALSE, FALSE,
                             Operand(0, s.m, s.n, 0), data.data, Operand(0, d.m, d.n, 0),
                             kern.data, Operand(0, k.m, k.n, 0), c.grids, c.threads, junk))]
  /\ UNCHANGED <<layerVars, devVars>>

\* Kernel footprints <<kH, kW>>: small ones, ones a 32 x 32 block must be
\* shrunk for, ones no block fits, and a row kernel of 130150495 floats.
Footprints ==
  (Window(MaxKer) \X Window(MaxKer))
  \cup {<<64, 64>>, <<70, 70>>, <<80, 80>>, <<1, 12289>>, <<1, 130150495>>}

BlockSides == {1, 2, 8, 16, 32}

GetSuitableShmConfig ==
  /\ ucall = NoUtilCall
  /\ \E g \in {Dim3(1, 1, 1), Dim3(2, 3, 2)}, tx \in BlockSides, ty \in BlockSides,
        f \in Footprints :
       /\ ucall' = [fn |-> "getSuitableShmConfig", grids |-> g,
                    threads |-> [x |-> tx, y |-> ty], kH |-> f[1], kW |-> f[2]]
       /\ LET r == getSuitableShmConfig(g, [x |-> tx, y |-> ty], f[1], f[2])
          IN uresult' = [outcome |-> IF r.raised THEN "raised" ELSE "returned",
                         value |-> r]
  /\ UNCHANGED <<layerVars, devVars>>

\* Images for the pooling functions: sides that are multiples of the scale.
PoolInputs ==
  {[scale |-> c, size |-> Size(a * c, b * c), batch |-> n, extra |-> e] :
     c \in Window(MaxScale), a \in 1..2, b \in 1..2, n \in Window(MaxBatch), e \in {0, 1}}

Downsample ==
  /\ ucall = NoUtilCall
  /\ \E i \in PoolInputs, threads \in BlockShapes, junk \in Junk :
       LET x == FracMat(PlainMat(area(i.size) + i.extra, i.batch, 1))
       IN /\ ucall' = [fn |-> "downsample", x |-> x, scale |-> i.scale, size |-> i.size]
          /\ uresult' = downsample(x, i.scale, i.size, threads, junk)
  /\ UNCHANGED <<layerVars, devVars>>

Upsample ==
  /\ ucall = NoUtilCall
  /\ \E i \in PoolInputs, threads \in BlockShapes, junk \in Junk :
       LET img == SizeDiv(i.size, i.scale)
           x   == FracMat(PlainMat(area(img) + i.extra, i.batch, 3))
       IN /\ ucall' = [fn |-> "upsample", x |-> x, s |-> i.size, img |-> img]
          /\ uresult' = upsample(x, i.size, img, threads, junk)
  /\ UNCHANGED <<layerVars, devVars>>

\* upsample(downsample(x, s, size), size, size / s)
UpsampleOfDownsample ==
  /\ ucall.fn = "downsample"
  /\ uresult.outcome = "returned"
  /\ \E threads \in BlockShapes, junk \in Junk :
       uresult' = upsample(uresult.value, ucall.size, SizeDiv(ucall.size, ucall.scale),
                           threads, junk)
  /\ ucall' = [ucall EXCEPT !.fn = "upsample_of_downsample"]
  /\ UNCHANGED <<layerVars, devVars>>

\* getSuitableShmConfig followed iteration by iteration.  Block sides here
\* include odd ones; the footprints include a 76 x 76 kernel, which fits a
\* 4 x 4 block and no larger one.
LoopSides == {3, 4, 8, 11, 32}

LoopFootprints == Footprints \cup {<<76, 76>>}

\* Entry: SHM_SIZE is computed for the caller's block.
ShmConfigEnter ==
  /\ ucall = NoUtilCall
  /\ \E g \in {Dim3(1, 1, 1), Dim3(2, 3, 2)}, tx \in LoopSides, ty \in LoopSides,
        f \in LoopFootprints :
       /\ ucall' = [fn |-> "getSuitableShmConfig_loop", grids |-> g,
                    threads |-> [x |-> tx, y |-> ty], kH |-> f[1], kW |-> f[2]]
       /\ uresult' = [outcome |-> "looping", iterations |-> 0,
                      value |-> [grids |-> g, threads |-> [x |-> tx, y |-> ty]]]
  /\ UNCHANGED <<layerVars, devVars>>

\* One iteration of the while loop.
ShmConfigHalve ==
  /\ ucall.fn = "getSuitableShmConfig_loop"
  /\ uresult.outcome = "looping"
  /\ ShmLoopCond(uresult.value, ucall.kH, ucall.kW)
  /\ uresult' = [uresult EXCEPT !.value = ShmLoopBody(@), !.iterations = @ + 1]
  /\ UNCHANGED <<layerVars, devVars, ucall>>

\* The loop ends: the function throws or returns SHM_SIZE.
ShmConfigExit ==
  /\ ucall.fn = "getSuitableShmConfig_loop"
  /\ uresult.outcome = "looping"
  /\ ~ShmLoopCond(uresult.value, ucall.kH, ucall.kW)
  /\ uresult' = [uresult EXCEPT !.outcome =
                   IF OverBudget(ShmSize(uresult.value.threads, ucall.kH, ucall.kW))
                   THEN "raised" ELSE "returned"]
  /\ UNCHANGED <<layerVars, devVars, ucall>>

NextUtil ==
  \/ GetConvnSize
  \/ Convn
  \/ ConvnKernels
  \/ GetSuitableShmConfig
  \/ Downsample
  \/ Upsample
  \/ UpsampleOfDownsample
  \/ ShmConfigEnter
  \/ ShmConfigHalve
  \/ ShmConfigExit

SpecUtil == InitUtil /\ [][NextUtil]_vars

(***************************************************************************)
(* C4: for every data matrix, kernel matrix and mode in {VALID, FULL}, the *)
(* tiled kernel launched with both rotation flags false on a zeroed output *)
(* leaves the same output matrix as the direct kernel, whatever the block  *)
(* shape, the shapes getSuitableShmConfig shrinks a block to included.     *)
(***************************************************************************)
C4_TiledEqualsDirect ==
  ucall.fn = "kernels" => uresult.tiled = uresult.direct

\* A FULL launch under a block that getSuitableShmConfig shrank, on an output
\* that is not all zero.
C4_Witness ==
  /\ ucall.fn = "kernels"
  /\ ucall.mode = "FULL"
  /\ ucall.threads \in {c.threads : c \in ShrunkConfigs}
  /\ ucall.threads.x * ucall.threads.y < 32 * 32
  /\ ucall.kernel.rows = MaxKer /\ ucall.kernel.cols = MaxKer
  /\ uresult.tiled = uresult.direct
  /\ \E p \in DOMAIN uresult.tiled : uresult.tiled[p] # 0

(***************************************************************************)
(* C5: for every initial grid, block shape and kernel footprint kH x kW,   *)
(* getSuitableShmConfig either raises a runtime error or returns a byte    *)
(* count equal to (kW*kH + (threads.x+kW-1) * (threads.y+kH-1)) * 4 for    *)
(* the block shape it leaves in `threads`, and that count is at most       *)
(* 48*1024.  The formula on the right is evaluated without any width       *)
(* limit.                                                                  *)
(***************************************************************************)
ExactShmBytes(threads, kH, kW) ==
  MulD(ShmElements(threads, kH, kW, WideDigits), ToDigits(SizeofFloat, WideDigits))

C5_ShmSizeExactAndWithinBudget ==
  ucall.fn = "getSuitableShmConfig" =>
    \/ uresult.outcome = "raised"
    \/ /\ Extend(uresult.value.SHM_SIZE, WideDigits)
            = ExactShmBytes(uresult.value.threads, ucall.kH, ucall.kW)
       /\ ~OverBudget(ExactShmBytes(uresult.value.threads, ucall.kH, ucall.kW))

(***************************************************************************)
(* C6: for every scale s >= 1 and every H x W image with H and W multiples *)
(* of s, upsample(downsample(x, s, (H, W)), (H, W), (H/s, W/s)) holds, in  *)
(* every batch column and at every pixel, the mean of the s x s block of x *)
(* that contains the pixel.                                                *)
(***************************************************************************)
\* The mean of the s x s block of column b of x that contains pixel (px, py)
\* of an H x W image.
BlockMean(x, b, px, py, H, W, s) ==
  FracDiv(<<SumOver(Idx(s) \X Idx(s),
                    LAMBDA d : x.data[b * H * W + ((py \div s) * s + d[1]) * H
                                      + (px \div s) * s + d[2]][1]), 1>>,
          s * s)

C6_UpsampleOfDownsampleIsBlockMean ==
  ucall.fn = "upsample_of_downsample" =>
    /\ uresult.outcome = "returned"
    /\ LET H == ucall.size.m
           W == ucall.size.n
       IN \A b \in Idx(ucall.x.cols), px \in Idx(H), py \in Idx(W) :
            uresult.value.data[b * H * W + py * H + px]
              = BlockMean(ucall.x, b, px, py, H, W, ucall.scale)

(***************************************************************************)
(* C7: every error of the taxonomy is fatal.  A call ends by raising a     *)
(* runtime error, and returns no result, when (a) convn or get_convn_size  *)
(* is given an unknown boundary mode, or convn is called with SAME_SHM,    *)
(* VALID_SHM or FULL_SHM; (b) the footprint getSuitableShmConfig ends with *)
(* is over the 48 KiB budget; (c) downsample or upsample is given a matrix *)
(* whose row count differs from the declared image area.                   *)
(***************************************************************************)
C7_ErrorsAreFatal ==
  /\ (ucall.fn \in {"convn", "get_convn_size"} /\ ucall.type \notin ConvTypes)
       => uresult.outcome = "raised"
  /\ (ucall.fn = "convn" /\ ucall.type \in {"SAME_SHM", "VALID_SHM", "FULL_SHM"})
       => uresult.outcome = "raised"
  /\ (/\ ucall.fn = "getSuitableShmConfig"
      /\ OverBudget(ExactShmBytes(uresult.value.threads, ucall.kH, ucall.kW)))
       => uresult.outcome = "raised"
  /\ (ucall.fn = "downsample" /\ ucall.x.rows # area(ucall.size))
       => uresult.outcome = "raised"
  /\ (ucall.fn = "upsample" /\ ucall.x.rows # area(ucall.img))
       => uresult.outcome = "raised"

(***************************************************************************)
(* The layer calls followed statement by statement.  The host thread runs  *)
(* the statements of a call: a kernel launch only appends the launch to    *)
(* the default stream and goes on.  The device takes the launches of the   *)
(* stream one at a time, in issue order; the threads of the launch it is   *)
(* executing run in any interleaving, and `output[...] += sum` is a read   *)
(* followed, later, by a write.                                            *)
(***************************************************************************)
MaxRacing == 5   \* the calls followed have at most MaxRacing threads writing per launch,
MaxWork == 9     \* and at most MaxWork over all their launches

LaunchStmt(l) == [op |-> "launch", l |-> l]
PeekStmt == [op |-> "cudaPeekAtLastError"]
SyncStmt == [op |-> "cudaDeviceSynchronize"]

LaunchStmts(ls) == [n \in DOMAIN ls |-> LaunchStmt(ls[n])]

\* error *= 1.0f / (_scale * _scale): one more operation on the stream.
scale_op(L) == [kind |-> "scale", out |-> <<"error">>, k |-> L.scale * L.scale]

\* _kernels[i] -= reshapeVectors2Images(Z[i], kernel): reshapeVectors2Images
\* copies the columns of Z[i] on the stream and synchronizes, then the
\* kernels are updated one by one.
subtract_ops(L, i) ==
  [n \in 1..L.nOut |->
     [kind |-> "subtract", out |-> <<"kernel", i, n - 1>>, data |-> <<"Z", i>>,
      dbase |-> (n - 1) * area(L.kernel)]]

RECURSIVE reshape_and_subtract(_, _)
reshape_and_subtract(L, i) ==
  IF i >= L.nIn THEN <<>>
  ELSE <<SyncStmt>> \o LaunchStmts(subtract_ops(L, i)) \o reshape_and_subtract(L, i + 1)

LayerCalls(L) ==
  IF L.kind = "conv" THEN {"feedForward", "feedBackward", "update_kernel"}
  ELSE {"feedForward", "feedBackward"}

\* The statements of a call from its first launch to its end.
HostProgram(L, call, threads) ==
  CASE L.kind = "conv" /\ call = "feedForward" ->
         IF feedForward_raises(L, fin.cols, threads) THEN <<>>
         ELSE LaunchStmts(feedForward_launches(L, fin.rows, fin.cols, threads))
              \o <<PeekStmt>>
    [] L.kind = "conv" /\ call = "feedBackward" ->
         IF feedBackward_raises(L, delta.cols, threads) THEN <<>>
         ELSE LaunchStmts(feedBackward_launches(L, delta.rows, delta.cols, threads))
    [] L.kind = "conv" /\ call = "update_kernel" ->
         IF update_kernel_raises(L, threads) THEN <<>>
         ELSE LaunchStmts(update_kernel_launches(L, fin.rows, delta.rows, fin.cols, threads))
              \o <<PeekStmt>> \o reshape_and_subtract(L, 0)
    [] L.kind = "sub" /\ call = "feedForward" ->
         LaunchStmts(sub_feedForward_launches(L, fin.rows, fin.cols, threads))
         \o <<SyncStmt>>
    [] L.kind = "sub" /\ call = "feedBackward" ->
         LaunchStmts(sub_feedBackward_launches(L, delta.rows, delta.cols, threads))
         \o <<LaunchStmt(scale_op(L)), SyncStmt>>

\* Device memory when the first launch of a call is issued.
SeedMem(L, call, junk) ==
  CASE L.kind = "conv" /\ call = "feedForward" ->
         DeviceMem(L, kernels, fin, EmptyMat, conv_bias_seed(L, bias, fin.cols, junk), EmptyMat)
    [] L.kind = "conv" /\ call = "feedBackward" ->
         DeviceMem(L, kernels, EmptyMat, delta, EmptyMat,
                   resize_fill(error, InRows(L), delta.cols, 0))
    [] L.kind = "conv" /\ call = "update_kernel" ->
         DeviceMem(L, kernels, fin, delta, EmptyMat, EmptyMat)
    [] L.kind = "sub" /\ call = "feedForward" ->
         DeviceMem(L, <<>>, fin, EmptyMat,
                   resize(fout, OutRows(L), fin.cols, FracInt(junk)), EmptyMat)
    [] L.kind = "sub" /\ call = "feedBackward" ->
         DeviceMem(L, <<>>, EmptyMat, delta, EmptyMat,
                   resize(error, InRows(L), delta.cols, FracInt(junk)))

\* The launches among the first n statements of a program, in issue order.
RECURSIVE IssuedLaunches(_, _)
IssuedLaunches(prog, n) ==
  IF n = 0 THEN <<>>
  ELSE IssuedLaunches(prog, n - 1)
       \o (IF prog[n].op = "launch" THEN <<prog[n].l>> ELSE <<>>)

\* The host enters a call of the layer.
Enter ==
  /\ pc = NotCalled
  /\ \E call \in LayerCalls(layer), threads \in BlockShapes, junk \in Junk :
       LET prog == HostProgram(layer, call, threads)
           seed == SeedMem(layer, call, junk)
           writers(n) == IF prog[n].op = "launch"
                         THEN Cardinality(LaunchWrites(seed, prog[n].l, junk)) ELSE 0
       IN /\ \A n \in DOMAIN prog : writers(n) <= MaxRacing
          /\ SumOver(DOMAIN prog, writers) <= MaxWork
          /\ pc' = [at |-> "called", call |-> call, prog |-> prog, next |-> 1,
                    synced |-> FALSE, junk |-> junk, seed |-> seed]
          /\ device' = seed
  /\ UNCHANGED <<layerVars, utilVars, stream, running>>

\* kernel<<<grids, threads, SHM_SIZE, 0>>>(...): the launch is queued.
HostLaunch ==
  /\ pc.at = "called"
  /\ pc.next <= Len(pc.prog)
  /\ pc.prog[pc.next].op = "launch"
  /\ stream' = Append(stream, pc.prog[pc.next].l)
  /\ pc' = [pc EXCEPT !.next = @ + 1, !.synced = FALSE]
  /\ UNCHANGED <<layerVars, utilVars, running, device>>

\* CCE(cudaPeekAtLastError()): waits for nothing.
HostPeek ==
  /\ pc.at = "called"
  /\ pc.next <= Len(pc.prog)
  /\ pc.prog[pc.next].op = "cudaPeekAtLastError"
  /\ pc' = [pc EXCEPT !.next = @ + 1]
  /\ UNCHANGED <<layerVars, utilVars, stream, running, device>>

\* CCE(cudaDeviceSynchronize()): returns once the device has nothing left.
HostSync ==
  /\ pc.at = "called"
  /\ pc.next <= Len(pc.prog)
  /\ pc.prog[pc.next].op = "cudaDeviceSynchronize"
  /\ stream = <<>>
  /\ running = Idle
  /\ pc' = [pc EXCEPT !.next = @ + 1, !.synced = TRUE]
  /\ UNCHANGED <<layerVars, utilVars, stream, running, device>>

\* The call returns to its caller.
HostReturn ==
  /\ pc.at = "called"
  /\ pc.next > Len(pc.prog)
  /\ pc' = [pc EXCEPT !.at = "returned"]
  /\ UNCHANGED <<layerVars, utilVars, stream, running, device>>

\* The device starts the launch at the head of the stream.
DeviceStart ==
  /\ running = Idle
  /\ stream # <<>>
  /\ running' = [busy |-> TRUE, l |-> Head(stream),
                 writes |-> LaunchWrites(device, Head(stream), pc.junk),
                 loaded |-> {}, done |-> {}]
  /\ stream' = Tail(stream)
  /\ UNCHANGED <<layerVars, utilVars, pc, device>>

\* A thread of a tiled launch reads output[...], the first half of `+=`.
ThreadLoad ==
  /\ running.busy
  /\ Accumulates(running.l)
  /\ \E w \in running.writes :
       /\ w[2] \notin running.done
       /\ ~ \E r \in running.loaded : r[1] = w[2]
       /\ running' = [running EXCEPT
                        !.loaded = @ \cup {<<w[2], device[running.l.out][w[1]]>>}]
  /\ UNCHANGED <<layerVars, utilVars, pc, stream, device>>

\* A thread stores: what it read plus its sum (tiled), or its value.
ThreadStore ==
  /\ running.busy
  /\ \E w \in running.writes :
       /\ w[2] \notin running.done
       /\ Accumulates(running.l) => \E r \in running.loaded : r[1] = w[2]
       /\ device' = [device EXCEPT ![running.l.out][w[1]] =
                       IF Accumulates(running.l)
                       THEN (CHOOSE r \in running.loaded : r[1] = w[2])[2] + w[3]
                       ELSE w[3]]
       /\ running' = [running EXCEPT !.done = @ \cup {w[2]},
                                     !.loaded = {r \in @ : r[1] # w[2]}]
  /\ UNCHANGED <<layerVars, utilVars, pc, stream>>

\* Every thread of the launch has ended.
DeviceFinish ==
  /\ running.busy
  /\ \A w \in running.writes : w[2] \in running.done
  /\ running' = Idle
  /\ UNCHANGED <<layerVars, utilVars, pc, stream, device>>

NextDev ==
  \/ Enter
  \/ HostLaunch
  \/ HostPeek
  \/ HostSync
  \/ HostReturn
  \/ DeviceStart
  \/ ThreadLoad
  \/ ThreadStore
  \/ DeviceFinish

\* A layer with its data, whose output matrices have not been used yet.
InitDev ==
  /\ Init
  /\ fout = EmptyMat
  /\ error = EmptyMat

SpecDev == InitDev /\ [][NextDev]_vars

(***************************************************************************)
(* C9: every layer feed step ends at a synchronization point.  In each of  *)
(* ConvolutionalLayer::feedForward, ConvolutionalLayer::feedBackward,      *)
(* SubSamplingLayer::feedForward and SubSamplingLayer::feedBackward a      *)
(* device-wide synchronization is executed after the last kernel launch of *)
(* the call and before it returns, so that at return no launch of the call *)
(* is pending or executing.                                                *)
(***************************************************************************)
C9_FeedStepEndsSynchronized ==
  (pc.at = "returned" /\ pc.call \in {"feedForward", "feedBackward"}) =>
    /\ pc.synced
    /\ stream = <<>>
    /\ running = Idle

(***************************************************************************)
(* C10: the non-atomic `output[...] += sum` of the tiled kernels loses no  *)
(* update in ConvolutionalLayer::feedForward, feedBackward and             *)
(* update_kernel.  Within one launch no two threads, over all blocks and   *)
(* z-slices, address the same output element, and the writes of z-slice z  *)
(* stay inside the map region that starts z * output_step after the base;  *)
(* the launches of a call are executed in issue order; and once the device *)
(* has executed every launch of the call, under whatever interleaving of   *)
(* the threads, device memory is what the launches give when each is run   *)
(* to completion in issue order with every `+=` applied whole.             *)
(***************************************************************************)
NoSharedElement ==
  \A w1 \in running.writes, w2 \in running.writes : w1[2] # w2[2] => w1[1] # w2[1]

InOwnRegion ==
  LET o == running.l.o
  IN /\ o.step = 0 \/ o.step >= o.H * o.W
     /\ \A w \in running.writes :
          LET start == o.base + w[2][3] * o.step
          IN w[1] >= start /\ w[1] < start + o.H * o.W

InIssueOrder ==
  LET issued == IssuedLaunches(pc.prog, pc.next - 1)
      waiting == Len(stream)
  IN /\ stream = SubSeq(issued, Len(issued) - waiting + 1, Len(issued))
     /\ running.busy => running.l = issued[Len(issued) - waiting]

Drained ==
  /\ pc.at # "idle"
  /\ pc.next > Len(pc.prog)
  /\ stream = <<>>
  /\ running = Idle

C10_AccumulationLosesNoUpdate ==
  (layer.kind = "conv" /\ pc.at # "idle") =>
    /\ (running.busy /\ Accumulates(running.l)) => NoSharedElement /\ InOwnRegion
    /\ InIssueOrder
    /\ Drained =>
         device = RunLaunches(pc.seed, IssuedLaunches(pc.prog, Len(pc.prog)), pc.junk)

\* feedForward with two input maps and two batch columns has been executed:
\* two launches added into each cell of fout, in two z-slices.
C10_Witness ==
  /\ layer.kind = "conv"
  /\ Drained
  /\ pc.call = "feedForward"
  /\ layer.nIn = 2
  /\ fin.cols = 2
  /\ device[<<"fout">>] # pc.seed[<<"fout">>]
  /\ device = RunLaunches(pc.seed, IssuedLaunches(pc.prog, Len(pc.prog)), pc.junk)

(***************************************************************************)
(* C11: block shrinkage in getSuitableShmConfig preserves total coverage   *)
(* and respects the minimum block size.  For every initial grid and block  *)
(* shape with at least 32 threads, after every iteration of the halving    *)
(* loop and at return, grids.x * threads.x and grids.y * threads.y are     *)
(* each at least their value at entry, both block axes are at least 1, and *)
(* the block has not been shrunk below 32 threads.                         *)
(***************************************************************************)
CoverageKept ==
  LET g == GridInts(uresult.value.grids)
      g0 == GridInts(ucall.grids)
  IN /\ g.x * uresult.value.threads.x >= g0.x * ucall.threads.x
     /\ g.y * uresult.value.threads.y >= g0.y * ucall.threads.y

AxesAtLeastOne == uresult.value.threads.x >= 1 /\ uresult.value.threads.y >= 1

AtLeastMinThreads == uresult.value.threads.x * uresult.value.threads.y >= MinThreads

C11_ShrinkageKeepsCoverageAndMinBlock ==
  (/\ ucall.fn = "getSuitableShmConfig_loop"
   /\ ucall.threads.x * ucall.threads.y >= MinThreads) =>
    /\ CoverageKept
    /\ AxesAtLeastOne
    /\ AtLeastMinThreads

====
